---- MODULE Spec2Model ----
(***************************************************************************)
(* Model of the rebase engine: the action classifier (actionFromMessage   *)
(* and the dispatch in Apply.Run), the carry flow (carryFlow,              *)
(* findFixedCarry) and the orchestrator loop (Apply.Run).                  *)
(*                                                                         *)
(* Text is modelled as sequences of one-character strings so that the      *)
(* regular expression of the classifier is matched character by character. *)
(***************************************************************************)
EXTENDS Integers, Sequences, FiniteSets, TLC

\* ---------------------------------------------------------------- bounds
\* longest commit queue returned by the log
MaxCommits == 3
\* a message of the classifier specification is made of at most this many fragments
MaxFrags == 3

\* ------------------------------------------------------------ characters
Digits == {"0", "1", "2", "3", "4", "5", "6", "7", "8", "9"}

Lower == {"a", "b", "c", "d", "e", "f", "g", "h", "i", "j", "k", "l", "m",
          "n", "o", "p", "q", "r", "s", "t", "u", "v", "w", "x", "y", "z"}

Upper == {"A", "B", "C", "D", "E", "F", "G", "H", "I", "J", "K", "L", "M",
          "N", "O", "P", "Q", "R", "S", "T", "U", "V", "W", "X", "Y", "Z"}

\* the class \w of the regular expression (ASCII only)
WordChars == Digits \cup Lower \cup Upper \cup {"_"}

\* the class without the angle brackets, as in UPSTREAM: (\w+):
ActionChars_NoBrackets == WordChars

\* the class [<>\w] of actionRE
ActionChars == WordChars \cup {"<", ">"}

\* the literal "UPSTREAM: " that opens actionRE
TagPrefix == <<"U", "P", "S", "T", "R", "E", "A", "M", ":", " ">>

\* the switch labels of Run
CarryAction == <<"<", "c", "a", "r", "r", "y", ">">>

DropAction == <<"<", "d", "r", "o", "p", ">">>

\* ---------------------------------------------------- the regular expression
HasPrefixAt(s, p, pre) ==
    /\ p + Len(pre) - 1 <= Len(s)
    /\ \A k \in 1..Len(pre) : s[p + k - 1] = pre[k]

\* first index at or after q that does not hold a character of [<>\w]:
\* the greedy run [<>\w]+ starting at q ends just before it
RECURSIVE RunEnd(_, _)
RunEnd(s, q) ==
    IF q <= Len(s) /\ s[q] \in ActionChars THEN RunEnd(s, q + 1) ELSE q

\* the match of actionRE anchored at p: <<whole match, group "action">>, or
\* <<>> when the expression does not match at p.  ":" is not in [<>\w], so
\* the only run that can be followed by ":" is the maximal one.
MatchAt(s, p) ==
    IF HasPrefixAt(s, p, TagPrefix)
    THEN LET q == p + Len(TagPrefix)
             e == RunEnd(s, q)
         IN  IF e > q /\ e <= Len(s) /\ s[e] = ":"
             THEN <<SubSeq(s, p, e), SubSeq(s, q, e - 1)>>
             ELSE <<>>
    ELSE <<>>

RECURSIVE FindFrom(_, _)
FindFrom(s, p) ==
    IF p > Len(s) THEN <<>>
    ELSE IF MatchAt(s, p) # <<>> THEN MatchAt(s, p)
    ELSE FindFrom(s, p + 1)

\* regexp.FindStringSubmatch: the leftmost match and its groups, nil (<<>>)
\* when there is no match
FindStringSubmatch(s) == FindFrom(s, 1)

\* actionRE.SubexpIndex("action"): the index of the only group of actionRE
SubexpIndex == 1

\* a Go value or a run-time panic
Value(v) == [panic |-> FALSE, value |-> v]

Panic == [panic |-> TRUE, value |-> <<>>]

\* actionFromMessage: matches[lastIndex], an index out of range panics
actionFromMessage(message) ==
    LET matches == FindStringSubmatch(message)
        lastIndex == SubexpIndex
    IN  IF lastIndex < 0 THEN Value(<<>>)
        ELSE IF lastIndex >= Len(matches) THEN Panic
        ELSE Value(matches[lastIndex + 1])

\* ------------------------------------------------------------ strconv.Atoi
DigitVal(c) ==
    CASE c = "0" -> 0 [] c = "1" -> 1 [] c = "2" -> 2 [] c = "3" -> 3
      [] c = "4" -> 4 [] c = "5" -> 5 [] c = "6" -> 6 [] c = "7" -> 7
      [] c = "8" -> 8 [] c = "9" -> 9

\* the digits of the largest int of a 64-bit build, 2^63 - 1
MaxIntDigits == <<"9", "2", "2", "3", "3", "7", "2", "0", "3", "6",
                  "8", "5", "4", "7", "7", "5", "8", "0", "7">>

RECURSIVE StripZeros(_)
StripZeros(s) ==
    IF Len(s) > 1 /\ s[1] = "0" THEN StripZeros(Tail(s)) ELSE s

\* a <= b for two digit strings of the same length
RECURSIVE DigitsLeq(_, _)
DigitsLeq(a, b) ==
    IF Len(a) = 0 THEN TRUE
    ELSE IF DigitVal(a[1]) < DigitVal(b[1]) THEN TRUE
    ELSE IF DigitVal(a[1]) > DigitVal(b[1]) THEN FALSE
    ELSE DigitsLeq(Tail(a), Tail(b))

\* the value of the digit string d fits an int
InIntRange(d) ==
    LET m == StripZeros(d)
    IN  \/ Len(m) < Len(MaxIntDigits)
        \/ Len(m) = Len(MaxIntDigits) /\ DigitsLeq(m, MaxIntDigits)

\* strconv.Atoi(s) returns a nil error: an optional sign, then one or more
\* decimal digits whose value fits an int.  (The only negative value a
\* longer magnitude admits, -2^63, is not told apart: no sign is in [<>\w].)
AtoiOk(s) ==
    LET d == IF Len(s) > 0 /\ s[1] \in {"+", "-"} THEN Tail(s) ELSE s
    IN  /\ Len(d) > 0
        /\ \A k \in 1..Len(d) : d[k] \in Digits
        /\ InIntRange(d)

\* Run, lines 57-60: a numeric action is handled as a carry
FoldNumeric(action) == IF AtoiOk(action) THEN CarryAction ELSE action

\* the drop case joined to the carry case: case "<carry>", "<drop>"
Switch_DropCarries(action) ==
    IF action = CarryAction \/ action = DropAction THEN "Carry" ELSE "Unknown"

\* Run, lines 61-71: the switch on the action
Switch(action) ==
    IF action = CarryAction THEN "Carry"
    ELSE IF action = DropAction THEN "Drop"
    ELSE "Unknown"

\* utils.FormatMessage: the classifier is given the text of the message
FormatMessage(message) == message

\* Run, lines 56-71: what the loop body decides once the message is
\* formatted: "Carry", "Drop", "Unknown", or "Panic" when actionFromMessage
\* panics
ClassifyText(text) ==
    LET r == actionFromMessage(text)
    IN  IF r.panic THEN "Panic" ELSE Switch(FoldNumeric(r.value))

\* Run, line 56: the loop body classifies the formatted message
Classify(message) == ClassifyText(FormatMessage(message))

\* ------------------------------------------------------------ message texts
Colon == <<":">>

TagCarry == TagPrefix \o CarryAction \o Colon

TagDrop == TagPrefix \o DropAction \o Colon

TagNum == TagPrefix \o <<"4", "2">> \o Colon

\* the tags without the angle brackets
TagBareCarry == TagPrefix \o <<"c", "a", "r", "r", "y">> \o Colon

TagBareDrop == TagPrefix \o <<"d", "r", "o", "p">> \o Colon

\* a numeric tag one above the largest int: 2^63
TagBig == TagPrefix \o <<"9", "2", "2", "3", "3", "7", "2", "0", "3", "6",
                          "8", "5", "4", "7", "7", "5", "8", "0", "8">> \o Colon

TagOther == TagPrefix \o <<"f", "o", "o">> \o Colon

Text == <<" ", "f", "i", "x">>

\* the pieces the messages of the classifier specification are made of;
\* loose pieces build tags across fragments and malformed tags
Fragments == {TagCarry, TagDrop, TagNum, TagBareCarry, TagBareDrop, TagBig,
              TagPrefix, CarryAction, Colon, Text}

RECURSIVE Concat(_)
Concat(fs) == IF Len(fs) = 0 THEN <<>> ELSE Head(fs) \o Concat(Tail(fs))

Messages ==
    UNION {{Concat(fs) : fs \in [1..n -> Fragments]} : n \in 0..MaxFrags}

\* the messages of the commits of a run: the three recognised tags, an
\* unrecognised tag and no tag
RunMessages == {TagCarry \o Text, Text \o TagDrop, TagNum \o Text,
                TagOther \o Text, Text}

\* ------------------------------------------------------------------ state
VARIABLES
    log,        \* the commits of the repository, in the order GetCommits returns them
    carries,    \* hashes with a file carries/<hash> under the working directory
    pc,         \* position of Run
    commits,    \* Run's local: the commit queue
    i,          \* Run's loop: index of the commit being processed
    err,        \* the error Run returned
    patch,      \* carryFlow's local: the path findFixedCarry returned
    tree,       \* the working tree: replay in progress and applied changes
    branch,     \* the working branch: "none", "created", "merged"
    calls,      \* history: the backend and store calls made so far
    outcome,    \* history: what the processing of each commit ended in
    msg,        \* classifier specification: the message given
    cls,        \* classifier specification: the result, "none" before the call
    git         \* git specifications: a call of Git.Log or Git.FindRebaseMarkerCommit

vars == <<log, carries, pc, commits, i, err, patch, tree, branch, calls,
          outcome, msg, cls, git>>

runVars == <<log, carries, pc, commits, i, err, patch, tree, branch, calls,
             outcome>>

\* no call of the git package under way
NoGit == [gpc |-> "none"]

NoHash == <<"sha", 0>>

Hash(k) == <<"sha", k>>

Hashes == {Hash(k) : k \in 1..MaxCommits}

NoPatch == <<>>

\* the logs of at most MaxCommits commits with distinct hashes
Logs ==
    UNION {{[k \in 1..n |-> [Hash |-> Hash(k), Message |-> m[k]]] :
                m \in [1..n -> RunMessages]} : n \in 0..MaxCommits}

CleanTree == [inProgress |-> NoHash, applied |-> <<>>]

InitRun ==
    /\ pc = "OpenGit"
    /\ commits = <<>>
    /\ i = 1
    /\ err = "nil"
    /\ patch = NoPatch
    /\ tree = CleanTree
    /\ branch = "none"
    /\ calls = <<>>

Init ==
    /\ log \in Logs
    /\ carries \in SUBSET Hashes
    /\ InitRun
    /\ outcome = [k \in 1..Len(log) |-> "none"]
    /\ msg = <<>>
    /\ cls = "none"
    /\ git = NoGit

\* ---------------------------------------------------------------- helpers
Call(op, k, ok) == [op |-> op, idx |-> k, ok |-> ok]

Record(op, k, ok) == calls' = Append(calls, Call(op, k, ok))

\* a return statement of Run
Return(e) ==
    /\ pc' = "Done"
    /\ err' = e

\* the error of carryFlow logged and the loop continued
CarryFailed_Continue(e, o) ==
    /\ pc' = "Loop"
    /\ err' = err
    /\ outcome' = [outcome EXCEPT ![i] = o]
    /\ i' = i + 1

\* Run, lines 63-66: carryFlow returned the error e for commit i
CarryFailed(e, o) ==
    /\ Return(e)
    /\ outcome' = [outcome EXCEPT ![i] = o]
    /\ UNCHANGED i

\* the loop index not advanced after carryFlow returns nil
CarryDone_NoAdvance(o) ==
    /\ pc' = "Loop"
    /\ err' = err
    /\ outcome' = [outcome EXCEPT ![i] = o]
    /\ i' = i

\* Run, line 63 when carryFlow returns nil: on to the next commit
CarryDone(o) ==
    /\ pc' = "Loop"
    /\ err' = err
    /\ outcome' = [outcome EXCEPT ![i] = o]
    /\ i' = i + 1

\* ---------------------------------------------------------------- Apply.Run
\* One action per backend call of Run and carryFlow.  Whether a call
\* succeeds is the environment's choice.  A failed CherryPick leaves its
\* replay in progress in the tree; a successful AbortCherryPick removes it;
\* a successful CherryPick or Apply adds its change to the tree; a failed
\* call changes nothing else.
\* line 38: git.OpenGit
OpenGit ==
    /\ pc = "OpenGit"
    /\ \E ok \in BOOLEAN :
          /\ Record("OpenGit", 0, ok)
          /\ IF ok THEN pc' = "GetCommits" /\ err' = err
                   ELSE Return("ErrOpenGit")
    /\ UNCHANGED <<log, carries, commits, i, patch, tree, branch, outcome, msg, cls, git>>

\* the error of GetCommits dropped: Run goes on to CreateBranch with no commits
GetCommits_IgnoreError ==
    /\ pc = "GetCommits"
    /\ \E ok \in BOOLEAN :
          /\ Record("GetCommits", 0, ok)
          /\ pc' = "CreateBranch"
          /\ err' = err
          /\ commits' = IF ok THEN log ELSE commits
    /\ UNCHANGED <<log, carries, i, patch, tree, branch, outcome, msg, cls, git>>

\* lines 43-46: c.log.GetCommits
GetCommits ==
    /\ pc = "GetCommits"
    /\ \E ok \in BOOLEAN :
          /\ Record("GetCommits", 0, ok)
          /\ IF ok THEN pc' = "CreateBranch" /\ err' = err /\ commits' = log
                   ELSE Return("ErrReadingCarries") /\ commits' = commits
    /\ UNCHANGED <<log, carries, i, patch, tree, branch, outcome, msg, cls, git>>

\* lines 47-50: repository.CreateBranch
CreateBranch ==
    /\ pc = "CreateBranch"
    /\ \E ok \in BOOLEAN :
          /\ Record("CreateBranch", 0, ok)
          /\ IF ok THEN pc' = "Merge" /\ err' = err /\ branch' = "created"
                   ELSE Return("ErrCreateBranch") /\ branch' = branch
    /\ UNCHANGED <<log, carries, commits, i, patch, tree, outcome, msg, cls, git>>

\* the error of Merge dropped: the loop is entered whatever Merge returns
Merge_IgnoreError ==
    /\ pc = "Merge"
    /\ \E ok \in BOOLEAN :
          /\ Record("Merge", 0, ok)
          /\ pc' = "Loop"
          /\ err' = err
          /\ branch' = IF ok THEN "merged" ELSE branch
    /\ UNCHANGED <<log, carries, commits, i, patch, tree, outcome, msg, cls, git>>

\* lines 51-53: repository.Merge
Merge ==
    /\ pc = "Merge"
    /\ \E ok \in BOOLEAN :
          /\ Record("Merge", 0, ok)
          /\ IF ok THEN pc' = "Loop" /\ err' = err /\ branch' = "merged"
                   ELSE Return("ErrMerge") /\ branch' = branch
    /\ UNCHANGED <<log, carries, commits, i, patch, tree, outcome, msg, cls, git>>

\* lines 54-72: one iteration of the loop up to the call of carryFlow
ProcessCommit ==
    /\ pc = "Loop"
    /\ i <= Len(commits)
    /\ LET action == Classify(commits[i].Message)
       IN  /\ Record("classify", i, action # "Panic")
           /\ CASE action = "Panic" ->
                     /\ pc' = "Panic"
                     /\ UNCHANGED <<i, outcome>>
                [] action = "Carry" ->
                     /\ pc' = "CherryPick"
                     /\ UNCHANGED <<i, outcome>>
                [] action = "Drop" ->
                     /\ pc' = "Loop"
                     /\ i' = i + 1
                     /\ outcome' = [outcome EXCEPT ![i] = "Dropped"]
                [] action = "Unknown" ->
                     /\ pc' = "Loop"
                     /\ i' = i + 1
                     /\ UNCHANGED outcome
    /\ UNCHANGED <<log, carries, commits, err, patch, tree, branch, msg, cls, git>>

\* line 73: the loop is over
ReturnNil ==
    /\ pc = "Loop"
    /\ i > Len(commits)
    /\ Return("nil")
    /\ UNCHANGED <<log, carries, commits, i, patch, tree, branch, calls, outcome, msg, cls, git>>

\* ---------------------------------------------------------------- carryFlow
\* the test of line 79 inverted: carryFlow returns nil when CherryPick fails
\* and goes on to Status when it succeeds
CherryPick_Inverted ==
    /\ pc = "CherryPick"
    /\ \E ok \in BOOLEAN :
          /\ Record("CherryPick", i, ok)
          /\ IF ok
             THEN /\ tree' = [tree EXCEPT !.applied =
                                 Append(@, <<"pick", commits[i].Hash>>)]
                  /\ pc' = "Status"
                  /\ UNCHANGED <<i, err, outcome>>
             ELSE /\ tree' = [tree EXCEPT !.inProgress = commits[i].Hash]
                  /\ CarryDone("AppliedDirect")
    /\ UNCHANGED <<log, carries, commits, patch, branch, msg, cls, git>>

\* lines 79-81: repository.CherryPick
CherryPick ==
    /\ pc = "CherryPick"
    /\ \E ok \in BOOLEAN :
          /\ Record("CherryPick", i, ok)
          /\ IF ok
             THEN /\ tree' = [tree EXCEPT !.applied =
                                 Append(@, <<"pick", commits[i].Hash>>)]
                  /\ CarryDone("AppliedDirect")
             ELSE /\ tree' = [tree EXCEPT !.inProgress = commits[i].Hash]
                  /\ pc' = "Status"
                  /\ UNCHANGED <<i, err, outcome>>
    /\ UNCHANGED <<log, carries, commits, patch, branch, msg, cls, git>>

\* lines 83-85: repository.Status
Status ==
    /\ pc = "Status"
    /\ \E ok \in BOOLEAN :
          /\ Record("Status", i, ok)
          /\ IF ok THEN pc' = "AbortCherryPick" /\ UNCHANGED <<i, err, outcome>>
                   ELSE CarryFailed("ErrStatus", "Failed")
    /\ UNCHANGED <<log, carries, commits, patch, tree, branch, msg, cls, git>>

\* the error of AbortCherryPick dropped: the lookup follows a failed abort
AbortCherryPick_IgnoreError ==
    /\ pc = "AbortCherryPick"
    /\ \E ok \in BOOLEAN :
          /\ Record("AbortCherryPick", i, ok)
          /\ tree' = IF ok THEN [tree EXCEPT !.inProgress = NoHash] ELSE tree
          /\ pc' = "FindFixedCarry"
          /\ UNCHANGED <<i, err, outcome>>
    /\ UNCHANGED <<log, carries, commits, patch, branch, msg, cls, git>>

\* lines 86-88: repository.AbortCherryPick
AbortCherryPick ==
    /\ pc = "AbortCherryPick"
    /\ \E ok \in BOOLEAN :
          /\ Record("AbortCherryPick", i, ok)
          /\ IF ok THEN /\ tree' = [tree EXCEPT !.inProgress = NoHash]
                        /\ pc' = "FindFixedCarry"
                        /\ UNCHANGED <<i, err, outcome>>
                   ELSE /\ tree' = tree
                        /\ CarryFailed("ErrAbort", "Failed")
    /\ UNCHANGED <<log, carries, commits, patch, branch, msg, cls, git>>

\* findFixedCarry, lines 115-125: the path carries/<carrySha> when a file is
\* there, an error when os.Getwd or os.Stat fails
CarryPath(carrySha) == <<"carries", carrySha>>

findFixedCarry(carrySha, getwdOk) ==
    IF ~getwdOk THEN [path |-> NoPatch, err |-> "ErrGetwd"]
    ELSE IF carrySha \notin carries THEN [path |-> NoPatch, err |-> "ErrNotExist"]
    ELSE [path |-> CarryPath(carrySha), err |-> "nil"]

\* lines 89-94: the lookup of a fixed carry
FindFixedCarry ==
    /\ pc = "FindFixedCarry"
    /\ \E getwdOk \in BOOLEAN :
          LET r == findFixedCarry(commits[i].Hash, getwdOk)
          IN  /\ Record("findFixedCarry", i, r.err = "nil")
              /\ IF r.err = "nil"
                 THEN /\ patch' = r.path
                      /\ pc' = "Apply"
                      /\ UNCHANGED <<i, err, outcome>>
                 ELSE /\ patch' = patch
                      /\ CarryFailed(r.err, "ManualInterventionRequired")
    /\ UNCHANGED <<log, carries, commits, tree, branch, msg, cls, git>>

\* the error of Apply dropped: carryFlow returns nil whatever Apply returns
Apply_IgnoreError ==
    /\ pc = "Apply"
    /\ \E ok \in BOOLEAN :
          /\ Record("Apply", i, ok)
          /\ tree' = IF ok THEN [tree EXCEPT !.applied = Append(@, <<"patch", patch>>)]
                           ELSE tree
          /\ CarryDone("AppliedViaResolution")
    /\ UNCHANGED <<log, carries, commits, patch, branch, msg, cls, git>>

\* lines 95-99: repository.Apply
Apply ==
    /\ pc = "Apply"
    /\ \E ok \in BOOLEAN :
          /\ Record("Apply", i, ok)
          /\ IF ok
             THEN /\ tree' = [tree EXCEPT !.applied = Append(@, <<"patch", patch>>)]
                  /\ CarryDone("AppliedViaResolution")
             ELSE /\ tree' = tree
                  /\ CarryFailed("ErrApply", "Failed")
    /\ UNCHANGED <<log, carries, commits, patch, branch, msg, cls, git>>

Next ==
    \/ OpenGit
    \/ GetCommits
    \/ CreateBranch
    \/ Merge
    \/ ProcessCommit
    \/ ReturnNil
    \/ CherryPick
    \/ Status
    \/ AbortCherryPick
    \/ FindFixedCarry
    \/ Apply

Spec == Init /\ [][Next]_vars

\* ------------------------------------------------ classifier specification
\* the classifier applied to one text out of Messages: msg is the text
\* actionFromMessage is given
InitClassify ==
    /\ msg \in Messages
    /\ cls = "none"
    /\ log = <<>>
    /\ carries = {}
    /\ InitRun
    /\ outcome = <<>>
    /\ git = NoGit

ClassifyMessage ==
    /\ cls = "none"
    /\ cls' = ClassifyText(msg)
    /\ UNCHANGED <<msg, runVars, git>>

NextClassify == ClassifyMessage

SpecClassify == InitClassify /\ [][NextClassify]_vars

\* ============================================================== properties
Contains(m, sub) == \E p \in 1..Len(m) : HasPrefixAt(m, p, sub)

\* p is where "UPSTREAM: " first occurs in m
FirstPrefixAt(m, p) ==
    /\ HasPrefixAt(m, p, TagPrefix)
    /\ \A q \in 1..(p - 1) : ~HasPrefixAt(m, q, TagPrefix)

\* m holds a tag UPSTREAM: <action>: at p, its closing colon at e
TagAt(m, p, e) ==
    /\ HasPrefixAt(m, p, TagPrefix)
    /\ e > p + Len(TagPrefix)
    /\ e <= Len(m)
    /\ m[e] = ":"
    /\ \A k \in (p + Len(TagPrefix))..(e - 1) : m[k] \in ActionChars

HasTagAt(m, p) == \E e \in (p + Len(TagPrefix) + 1)..Len(m) : TagAt(m, p, e)

\* the first tag of m is at p and closes at e
FirstTagAt(m, p, e) ==
    /\ TagAt(m, p, e)
    /\ \A q \in 1..(p - 1) : ~HasTagAt(m, q)

AllDigits(t) == Len(t) > 0 /\ \A k \in 1..Len(t) : t[k] \in Digits

\* the action the vocabulary of the classifier gives the tag t
ActionOfTag(t) ==
    IF t = CarryAction THEN "Carry"
    ELSE IF t = DropAction THEN "Drop"
    ELSE IF AllDigits(t) THEN "Carry"
    ELSE "Unknown"

\* the calls of carryFlow for commit j
CallsOf(j, ops) == {k \in DOMAIN calls : calls[k].idx = j /\ calls[k].op \in ops}

PickFailed(j) == \E k \in CallsOf(j, {"CherryPick"}) : ~calls[k].ok

PickSucceeded(j) == \E k \in CallsOf(j, {"CherryPick"}) : calls[k].ok

\* carryFlow was entered for commit j and has returned
CarryFlowReturned(j) ==
    /\ CallsOf(j, {"CherryPick"}) # {}
    /\ \/ pc \in {"Done", "Panic"}
       \/ pc = "Loop"
       \/ i > j

\* the number of changes the commits before j put into the tree
AppliedBefore(j) ==
    Cardinality({k \in DOMAIN calls : /\ calls[k].op \in {"CherryPick", "Apply"}
                                      /\ calls[k].ok
                                      /\ calls[k].idx < j})

\* C1: classification is total: no commit message, tagged or not, makes
\* actionFromMessage fail, so Run never crashes on a message.
C1_ClassificationTotal == pc # "Panic"

\* C2: once carryFlow has returned for a commit whose CherryPick failed,
\* AbortCherryPick has been invoked for it and no replay is in progress.
C2_AbortUnconditional ==
    \A j \in DOMAIN commits :
        (PickFailed(j) /\ CarryFlowReturned(j)) =>
            /\ CallsOf(j, {"AbortCherryPick"}) # {}
            /\ tree.inProgress = NoHash

\* C3 as stated: every message containing "UPSTREAM: carry:" is classified
\* Carry, every one containing "UPSTREAM: drop:" Drop, every one containing
\* "UPSTREAM: 42:" Carry.
C3_ContainsBareTag ==
    cls # "none" =>
        /\ Contains(msg, TagBareCarry) => cls = "Carry"
        /\ Contains(msg, TagBareDrop) => cls = "Drop"
        /\ Contains(msg, TagNum) => cls = "Carry"

\* C3 amended: a message in which the first "UPSTREAM: " opens
\* "UPSTREAM: <carry>:" is classified Carry, one in which it opens
\* "UPSTREAM: <drop>:" Drop, one in which it opens "UPSTREAM: 42:" Carry.
C3_FirstBracketedTag ==
    cls # "none" =>
        \A p \in 1..Len(msg) :
            FirstPrefixAt(msg, p) =>
                /\ HasPrefixAt(msg, p, TagCarry) => cls = "Carry"
                /\ HasPrefixAt(msg, p, TagDrop) => cls = "Drop"
                /\ HasPrefixAt(msg, p, TagNum) => cls = "Carry"

\* a message classified by a <drop> tag that follows other text and is
\* followed by a <carry> tag
C3_Witness ==
    /\ cls = "Drop"
    /\ \E p \in 2..Len(msg) :
          /\ FirstPrefixAt(msg, p)
          /\ HasPrefixAt(msg, p, TagDrop)
          /\ HasPrefixAt(msg, p + Len(TagDrop), TagCarry)

\* C4: the first tag UPSTREAM: <action>: of a message alone decides its
\* action: <carry> gives Carry, <drop> Drop, a string of decimal digits
\* Carry, any other tag Unknown, whatever follows the tag.
C4_FirstTagDecides ==
    cls # "none" =>
        \A p \in 1..Len(msg) :
            HasPrefixAt(msg, p, TagPrefix) =>
                \A e \in (p + Len(TagPrefix) + 1)..Len(msg) :
                    FirstTagAt(msg, p, e) =>
                        cls = ActionOfTag(SubSeq(msg, p + Len(TagPrefix), e - 1))

\* C5: carryFlow on a commit whose replay conflicts and that has no patch
\* under its hash ends in ManualInterventionRequired, with no replay in
\* progress and the tree as the earlier commits left it.
C5_ConflictNoPatch ==
    \A j \in DOMAIN commits :
        (PickFailed(j) /\ CarryFlowReturned(j) /\ commits[j].Hash \notin carries) =>
            /\ outcome[j] = "ManualInterventionRequired"
            /\ tree.inProgress = NoHash
            /\ Len(tree.applied) = AppliedBefore(j)

\* C6: carryFlow on a commit whose replay conflicts and that has a patch
\* under its hash ends in AppliedViaResolution: the patch carries/<hash> of
\* that commit, and nothing else, was applied and no replay is in progress.
C6_ConflictWithPatch ==
    \A j \in DOMAIN commits :
        (PickFailed(j) /\ CarryFlowReturned(j) /\ commits[j].Hash \in carries) =>
            /\ outcome[j] = "AppliedViaResolution"
            /\ tree.inProgress = NoHash
            /\ Len(tree.applied) > AppliedBefore(j)
            /\ tree.applied[AppliedBefore(j) + 1] = <<"patch", CarryPath(commits[j].Hash)>>
            /\ \A n \in (AppliedBefore(j) + 2)..Len(tree.applied) :
                  tree.applied[n] # <<"pick", commits[j].Hash>>

\* C7: a commit whose CherryPick succeeded is AppliedDirect and neither
\* Status, AbortCherryPick, findFixedCarry nor Apply is ever invoked for it;
\* its change is in the tree and no replay of it is in progress.
C7_CleanReplay ==
    \A j \in DOMAIN commits :
        PickSucceeded(j) =>
            /\ outcome[j] = "AppliedDirect"
            /\ CallsOf(j, {"Status", "AbortCherryPick", "findFixedCarry", "Apply"}) = {}
            /\ Cardinality(CallsOf(j, {"CherryPick"})) = 1
            /\ tree.inProgress # commits[j].Hash
            /\ (i = j + 1 /\ pc = "Loop") => tree.inProgress = NoHash
            /\ Len(tree.applied) > AppliedBefore(j)
            /\ tree.applied[AppliedBefore(j) + 1] = <<"pick", commits[j].Hash>>

\* Run has returned after a clean replay of some commit
C7_Witness ==
    /\ pc = "Done"
    /\ \E j \in DOMAIN commits : PickSucceeded(j) /\ outcome[j] = "AppliedDirect"

\* the error carryFlow returns when the call c fails
ErrorsOf(c) ==
    CASE c.op = "Status" -> {"ErrStatus"}
      [] c.op = "AbortCherryPick" -> {"ErrAbort"}
      [] c.op = "findFixedCarry" -> {"ErrGetwd", "ErrNotExist"}
      [] c.op = "Apply" -> {"ErrApply"}
      [] OTHER -> {}

CarryFlowFailure(k) ==
    /\ calls[k].op \in {"Status", "AbortCherryPick", "findFixedCarry", "Apply"}
    /\ ~calls[k].ok

\* C8: a failure of carryFlow is the last thing a run does: Run has
\* returned the error of the failed call, the failed call is the last call
\* made (no later commit is classified, replayed, aborted or patched) and no
\* later commit has an outcome.
C8_FailureHalts ==
    \A k \in DOMAIN calls :
        CarryFlowFailure(k) =>
            /\ pc = "Done"
            /\ err \in ErrorsOf(calls[k])
            /\ k = Len(calls)
            /\ i = calls[k].idx
            /\ \A j \in DOMAIN commits : j > calls[k].idx => outcome[j] = "none"

\* Run has returned for want of a patch while commits are left in the queue
C8_Witness ==
    /\ pc = "Done"
    /\ err = "ErrNotExist"
    /\ i < Len(commits)
    /\ CarryFlowFailure(Len(calls))

\* C9: when Run has returned, every commit of the queue has an outcome
\* (stated for the runs that return success, where every commit was reached).
C9_OneOutcomePerCommit ==
    (pc = "Done" /\ err = "nil") =>
        \A j \in DOMAIN commits : outcome[j] # "none"

\* the commits of the session are tagged drop or carry, and every commit
\* whose replay conflicted has a patch under its hash
C10_Scenario ==
    /\ branch = "merged"
    /\ \A j \in DOMAIN commits :
          /\ Classify(commits[j].Message) \in {"Carry", "Drop"}
          /\ PickFailed(j) => commits[j].Hash \in carries

C10_Outcome(j) ==
    IF Classify(commits[j].Message) = "Drop" THEN "Dropped"
    ELSE IF PickFailed(j) THEN "AppliedViaResolution"
    ELSE "AppliedDirect"

C10_Change(j) ==
    IF PickFailed(j) THEN <<"patch", CarryPath(commits[j].Hash)>>
    ELSE <<"pick", commits[j].Hash>>

RECURSIVE C10_Changes(_)
C10_Changes(n) ==
    IF n = 0 THEN <<>>
    ELSE IF Classify(commits[n].Message) = "Carry"
         THEN Append(C10_Changes(n - 1), C10_Change(n))
         ELSE C10_Changes(n - 1)

\* C10: a run over commits tagged drop, tagged carry and replaying cleanly,
\* or tagged carry and conflicting with a patch stored, returns success with
\* the outcomes Dropped, AppliedDirect and AppliedViaResolution in queue
\* order, and the tree holds the changes of the carried commits only.
C10_EndToEnd ==
    (pc = "Done" /\ C10_Scenario) =>
        /\ err = "nil"
        /\ \A j \in DOMAIN commits : outcome[j] = C10_Outcome(j)
        /\ tree.applied = C10_Changes(Len(commits))
        /\ tree.inProgress = NoHash

\* the calls made for the commits of the queue: classification and carryFlow
CommitOps == {"classify", "CherryPick", "Status", "AbortCherryPick",
              "findFixedCarry", "Apply"}

\* a call of op that succeeded was made before the k-th call
SucceededBefore(op, k) ==
    \E n \in 1..(k - 1) : calls[n].op = op /\ calls[n].ok

\* C11: CreateBranch is called before Merge and both succeed before any
\* commit is classified or replayed; a failed CreateBranch or Merge is the
\* last call of the run and Run has returned its error: no Merge follows a
\* failed CreateBranch and no commit is touched after either failure.
C11_PrepareBranch ==
    \A k \in DOMAIN calls :
        /\ calls[k].op = "Merge" => SucceededBefore("CreateBranch", k)
        /\ calls[k].op \in CommitOps =>
              /\ SucceededBefore("CreateBranch", k)
              /\ SucceededBefore("Merge", k)
        /\ (calls[k].op \in {"CreateBranch", "Merge"} /\ ~calls[k].ok) =>
              /\ k = Len(calls)
              /\ pc = "Done"
              /\ err = IF calls[k].op = "Merge" THEN "ErrMerge" ELSE "ErrCreateBranch"
              /\ tree = CleanTree
              /\ \A j \in DOMAIN commits : outcome[j] = "none"

\* Run has returned the error of Merge with commits waiting in the queue
C11_Witness ==
    /\ pc = "Done"
    /\ err = "ErrMerge"
    /\ Len(commits) > 0
    /\ branch = "created"

\* C12 as stated: the commit log is obtained only after CreateBranch and
\* Merge have succeeded.
C12_LogAfterBranch ==
    \A k \in DOMAIN calls :
        calls[k].op = "GetCommits" =>
            /\ SucceededBefore("CreateBranch", k)
            /\ SucceededBefore("Merge", k)

\* C12 amended: the commit log is obtained before the branch is prepared:
\* every CreateBranch and Merge call follows a successful GetCommits, and
\* when GetCommits fails no branch has been created or merged, and none is.
C12_LogBeforeBranch ==
    \A k \in DOMAIN calls :
        /\ calls[k].op \in {"CreateBranch", "Merge"} => SucceededBefore("GetCommits", k)
        /\ calls[k].op = "GetCommits" =>
              /\ \A n \in 1..(k - 1) : calls[n].op \notin {"CreateBranch", "Merge"}
              /\ ~calls[k].ok =>
                    /\ k = Len(calls)
                    /\ pc = "Done"
                    /\ err = "ErrReadingCarries"
                    /\ branch = "none"

\* Run has returned the error of GetCommits and there is no working branch
C12_Witness ==
    /\ pc = "Done"
    /\ err = "ErrReadingCarries"
    /\ branch = "none"
    /\ Len(calls) = 2

\* the changes the successful CherryPick and Apply calls among the first n
\* calls put into the tree, in call order
RECURSIVE ChangesOfCalls(_)
ChangesOfCalls(n) ==
    IF n = 0 THEN <<>>
    ELSE IF calls[n].op = "CherryPick" /\ calls[n].ok
         THEN Append(ChangesOfCalls(n - 1), <<"pick", commits[calls[n].idx].Hash>>)
    ELSE IF calls[n].op = "Apply" /\ calls[n].ok
         THEN Append(ChangesOfCalls(n - 1),
                     <<"patch", CarryPath(commits[calls[n].idx].Hash)>>)
    ELSE ChangesOfCalls(n - 1)

\* the positions in calls of the classifications, in call order
ClassifyCalls == {k \in DOMAIN calls : calls[k].op = "classify"}

\* C13: the commits are taken in queue order, each once: the n-th commit
\* classified is the n-th of the queue, every call of carryFlow is for the
\* commit classified last and is made at most once per commit, a replay in
\* progress is the replay of the current commit, and a replay starts on a
\* tree with no replay in progress that holds the changes of all earlier
\* carries.
C13_Sequential ==
    /\ \A k \in ClassifyCalls :
          calls[k].idx = Cardinality({n \in ClassifyCalls : n <= k})
    /\ \A k \in DOMAIN calls :
          calls[k].op \in CommitOps =>
              /\ calls[k].idx \in DOMAIN commits
              /\ \A n \in 1..(k - 1) : calls[n].idx <= calls[k].idx
              /\ \A n \in 1..(k - 1) :
                    calls[n].idx = calls[k].idx => calls[n].op # calls[k].op
              /\ calls[k].op # "classify" =>
                    \E n \in 1..(k - 1) :
                        calls[n].op = "classify" /\ calls[n].idx = calls[k].idx
    /\ tree.inProgress # NoHash =>
          /\ i \in DOMAIN commits
          /\ tree.inProgress = commits[i].Hash
          /\ pc \in {"Status", "AbortCherryPick", "Done"}
    /\ tree.applied = ChangesOfCalls(Len(calls))
    /\ pc = "CherryPick" =>
          /\ tree.inProgress = NoHash
          /\ Len(tree.applied) = AppliedBefore(i)

\* the replay of a later commit is about to start on a tree that holds an
\* earlier pick and an earlier resolution patch
C13_Witness ==
    /\ pc = "CherryPick"
    /\ i = 3
    /\ Len(tree.applied) = 2
    /\ tree.applied[1][1] = "patch"
    /\ tree.applied[2][1] = "pick"

\* the first tag of the message m has the action a in the vocabulary
FirstTagAction(m, a) ==
    \E p \in 1..Len(m) :
        /\ HasPrefixAt(m, p, TagPrefix)
        /\ \E e \in (p + Len(TagPrefix) + 1)..Len(m) :
              /\ FirstTagAt(m, p, e)
              /\ ActionOfTag(SubSeq(m, p + Len(TagPrefix), e - 1)) = a

\* the actions the vocabulary gives the first tag of each message of a run
\* (none for a message without a tag)
RunTagActions ==
    [m \in RunMessages |-> {a \in {"Carry", "Drop", "Unknown"} : FirstTagAction(m, a)}]

CarryFlowOps == {"CherryPick", "Status", "AbortCherryPick", "findFixedCarry", "Apply"}

Phase ==
    CASE pc = "Done" /\ err = "nil" -> "Completed"
      [] pc = "Done" /\ err # "nil" -> "Aborted"
      [] pc = "Panic" -> "Crashed"
      [] pc \in {"OpenGit", "GetCommits", "CreateBranch", "Merge"} -> "Initializing"
      [] pc = "Loop" /\ ClassifyCalls = {} -> "BranchPrepared"
      [] OTHER -> "ProcessingCommits"

\* C15: a run that has stopped (no step of Run is left to take) has reached
\* Completed or Aborted.
C15_StopsCompletedOrAborted ==
    ~ENABLED Next => Phase \in {"Completed", "Aborted"}

\* C17: the lookup of a patch for a commit comes right after the failed
\* CherryPick, the Status and the successful AbortCherryPick of that commit,
\* and Apply right after the successful lookup; the lookup succeeds exactly
\* when a patch is stored under the hash of that commit, the patch handed to
\* Apply is the one under that hash, and no replay is in progress when the
\* lookup or Apply is about to be made.
C17_LookupAfterAbort ==
    /\ \A k \in DOMAIN calls :
          LET j == calls[k].idx
          IN  /\ calls[k].op = "findFixedCarry" =>
                    /\ k > 3
                    /\ calls[k - 3] = Call("CherryPick", j, FALSE)
                    /\ calls[k - 2] = Call("Status", j, TRUE)
                    /\ calls[k - 1] = Call("AbortCherryPick", j, TRUE)
                    /\ calls[k].ok => commits[j].Hash \in carries
                    /\ commits[j].Hash \notin carries => ~calls[k].ok
              /\ calls[k].op = "Apply" =>
                    /\ k > 1
                    /\ calls[k - 1] = Call("findFixedCarry", j, TRUE)
                    /\ calls[k].ok => <<"patch", CarryPath(commits[j].Hash)>> =
                                         tree.applied[AppliedBefore(j) + 1]
    /\ pc \in {"FindFixedCarry", "Apply"} => tree.inProgress = NoHash
    /\ pc = "Apply" => patch = CarryPath(commits[i].Hash)

\* the patch of the second commit is about to be applied while a patch for
\* another commit is in the store too
C17_Witness ==
    /\ pc = "Apply"
    /\ i = 2
    /\ patch = CarryPath(Hash(2))
    /\ Hash(1) \in carries
    /\ tree.inProgress = NoHash

\* a successful CherryPick or a successful Apply was made for commit j
CarryApplied(j) ==
    \E k \in CallsOf(j, {"CherryPick", "Apply"}) : calls[k].ok

\* C18: when Run has returned success, every commit of the queue that is
\* classified Carry was applied by a successful CherryPick or a successful
\* Apply of the patch under its hash, and its change is in the tree.
C18_CarriesApplied ==
    (pc = "Done" /\ err = "nil") =>
        \A j \in DOMAIN commits :
            Classify(commits[j].Message) = "Carry" =>
                /\ CarryApplied(j)
                /\ outcome[j] \in {"AppliedDirect", "AppliedViaResolution"}
                /\ \E n \in DOMAIN tree.applied :
                      tree.applied[n] \in {<<"pick", commits[j].Hash>>,
                                           <<"patch", CarryPath(commits[j].Hash)>>}

\* Run has returned success after applying a numeric-tagged commit and a
\* commit resolved by its patch
C18_Witness ==
    /\ pc = "Done"
    /\ err = "nil"
    /\ \E j \in DOMAIN commits :
          commits[j].Message = TagNum \o Text /\ CarryApplied(j)
    /\ \E j \in DOMAIN commits : outcome[j] = "AppliedViaResolution"

\* ================================================================ package git
\* longest history of the repository
MaxLog == 3

\* the string ""
EmptyString == <<>>

\* the strings given as from and stopAtHash: "", the hashes of the commits
\* a history can hold and the hash of a commit that is in no history
HashStrings == {EmptyString} \cup {Hash(k) : k \in 1..(MaxLog + 1)}

\* the commit messages and the markers of the marker search
GitMessages == {<<"x">>, <<"r">>, <<"x", "r", "b">>, <<"b", "r">>}

Markers == {EmptyString, <<"r">>, <<"r", "b">>}

\* the histories of at most MaxLog commits, HEAD first, with messages of ms
Histories(ms) ==
    UNION {{[k \in 1..n |-> [Hash |-> Hash(k), Message |-> m[k]]] :
                m \in [1..n -> ms]} : n \in 0..MaxLog}

NoCommit == [Hash |-> NoHash, Message |-> <<>>]

\* the nil results and the nil error
NoRet == [commits |-> <<>>, commit |-> NoCommit, err |-> "nil"]

\* the state of a call before its first statement.  openErr and errAt are
\* what the repository does during the call: repository.Log fails, and the
\* errAt-th iter.Next returns an error that is not io.EOF (0: none does)
GitCall(gpc, history, from, stopAtHash, marker, openErr, errAt) ==
    [gpc |-> gpc, history |-> history, from |-> from, stopAtHash |-> stopAtHash,
     marker |-> marker, openErr |-> openErr, errAt |-> errAt,
     iter |-> <<>>, commits |-> <<>>, ret |-> NoRet, nexts |-> 0]

\* repository.Log(o): the commits the iterator walks, from o.From when a
\* from is given and from HEAD otherwise; <<>> when that commit does not
\* exist and Log returns an error
LogFrom(history, from) ==
    IF Len(from) > 0
    THEN IF \E k \in DOMAIN history : history[k].Hash = from
         THEN SubSeq(history, CHOOSE k \in DOMAIN history : history[k].Hash = from,
                     Len(history))
         ELSE <<>>
    ELSE history

\* the return of a call of the git package
GitReturn(cs, c, e, n) ==
    git' = [git EXCEPT !.gpc = "done",
                       !.ret = [commits |-> cs, commit |-> c, err |-> e],
                       !.nexts = n]

\* ---------------------------------------------------------------- git.Log
\* lines 123-134: the options, repository.Log and the empty slice
LogOpen ==
    /\ git.gpc = "Log.open"
    /\ IF git.openErr \/ LogFrom(git.history, git.from) = <<>>
       THEN GitReturn(<<>>, NoCommit, "ErrGitLog", 0)
       ELSE git' = [git EXCEPT !.gpc = "Log.next",
                               !.iter = LogFrom(git.history, git.from),
                               !.commits = <<>>]
    /\ UNCHANGED <<runVars, msg, cls>>

\* the break of line 146 taken before the append of line 144
LogNext_BreakFirst ==
    /\ git.gpc = "Log.next"
    /\ \/ /\ git.nexts + 1 = git.errAt
          /\ GitReturn(<<>>, NoCommit, "ErrIterating", git.nexts + 1)
       \/ /\ git.nexts + 1 # git.errAt
          /\ git.iter = <<>>
          /\ GitReturn(git.commits, NoCommit, "nil", git.nexts + 1)
       \/ /\ git.nexts + 1 # git.errAt
          /\ git.iter # <<>>
          /\ LET commit == Head(git.iter)
             IN  IF commit.Hash = git.stopAtHash
                 THEN GitReturn(git.commits, NoCommit, "nil", git.nexts + 1)
                 ELSE git' = [git EXCEPT !.iter = Tail(git.iter),
                                         !.commits = Append(git.commits, commit),
                                         !.nexts = git.nexts + 1]
    /\ UNCHANGED <<runVars, msg, cls>>

\* lines 135-150: one turn of the loop: iter.Next returns an error, io.EOF
\* at the end of the walk, or the next commit
LogNext ==
    /\ git.gpc = "Log.next"
    /\ \/ /\ git.nexts + 1 = git.errAt
          /\ GitReturn(<<>>, NoCommit, "ErrIterating", git.nexts + 1)
       \/ /\ git.nexts + 1 # git.errAt
          /\ git.iter = <<>>
          /\ GitReturn(git.commits, NoCommit, "nil", git.nexts + 1)
       \/ /\ git.nexts + 1 # git.errAt
          /\ git.iter # <<>>
          /\ LET commit == Head(git.iter)
                 appended == Append(git.commits, commit)
             IN  IF commit.Hash = git.stopAtHash
                 THEN GitReturn(appended, NoCommit, "nil", git.nexts + 1)
                 ELSE git' = [git EXCEPT !.iter = Tail(git.iter),
                                         !.commits = appended,
                                         !.nexts = git.nexts + 1]
    /\ UNCHANGED <<runVars, msg, cls>>

InitGit ==
    /\ log = <<>>
    /\ carries = {}
    /\ InitRun
    /\ outcome = <<>>
    /\ msg = <<>>
    /\ cls = "none"

InitLog ==
    /\ InitGit
    /\ \E history \in Histories({Text}), from \in HashStrings, stopAtHash \in HashStrings,
          openErr \in BOOLEAN, errAt \in 0..(MaxLog + 1) :
          git = GitCall("Log.open", history, from, stopAtHash, EmptyString, openErr, errAt)

NextLog == LogOpen \/ LogNext

SpecLog == InitLog /\ [][NextLog]_vars

\* ------------------------------------------------ git.FindRebaseMarkerCommit
\* strings.HasPrefix in the place of strings.Contains
stringsContains_Prefix(s, substr) == HasPrefixAt(s, 1, substr)

\* strings.Contains(s, substr): substr is at some index of s
RECURSIVE IndexFrom(_, _, _)
IndexFrom(s, substr, p) ==
    IF p + Len(substr) - 1 > Len(s) THEN 0
    ELSE IF SubSeq(s, p, p + Len(substr) - 1) = substr THEN p
    ELSE IndexFrom(s, substr, p + 1)

stringsContains(s, substr) == IndexFrom(s, substr, 1) > 0

\* lines 67-76: the options and repository.Log
FindOpen ==
    /\ git.gpc = "Find.open"
    /\ IF git.openErr \/ LogFrom(git.history, git.from) = <<>>
       THEN GitReturn(<<>>, NoCommit, "ErrGitLog", 0)
       ELSE git' = [git EXCEPT !.gpc = "Find.next",
                               !.iter = LogFrom(git.history, git.from)]
    /\ UNCHANGED <<runVars, msg, cls>>

\* lines 77-86: one turn of the loop: any error of iter.Next, io.EOF
\* included, ends the search with an error
FindNext ==
    /\ git.gpc = "Find.next"
    /\ \/ /\ git.nexts + 1 = git.errAt \/ git.iter = <<>>
          /\ GitReturn(<<>>, NoCommit, "ErrFindMarker", git.nexts + 1)
       \/ /\ git.nexts + 1 # git.errAt
          /\ git.iter # <<>>
          /\ LET commit == Head(git.iter)
             IN  IF stringsContains(commit.Message, git.marker)
                 THEN GitReturn(<<>>, commit, "nil", git.nexts + 1)
                 ELSE git' = [git EXCEPT !.iter = Tail(git.iter),
                                         !.nexts = git.nexts + 1]
    /\ UNCHANGED <<runVars, msg, cls>>

InitFind ==
    /\ InitGit
    /\ \E history \in Histories(GitMessages), from \in HashStrings, marker \in Markers,
          openErr \in BOOLEAN, errAt \in 0..(MaxLog + 1) :
          git = GitCall("Find.open", history, from, EmptyString, marker, openErr, errAt)

NextFind == FindOpen \/ FindNext

SpecFind == InitFind /\ [][NextFind]_vars

\* the commits the iterator of the call walks
Walk == LogFrom(git.history, git.from)

\* the least element of a non-empty set of numbers, 0 for the empty set
Least(S) == IF S = {} THEN 0 ELSE CHOOSE k \in S : \A n \in S : k <= n

\* the place in the walk of the first commit with the hash stopAtHash, or 0
StopIndex == Least({k \in DOMAIN Walk : Walk[k].Hash = git.stopAtHash})

\* the iter.Next calls Log makes when none of them fails
LogNexts == IF StopIndex > 0 THEN StopIndex ELSE Len(Walk) + 1

\* repository.Log fails or one of the iter.Next calls of Log does
LogFails ==
    \/ git.openErr
    \/ Walk = <<>>
    \/ git.errAt \in 1..LogNexts

\* C16: Log returns the commits of the walk up to and including the first
\* one whose hash is stopAtHash, having asked the iterator for no commit
\* after it; the whole walk when no commit has that hash; and an error with
\* no commits when repository.Log or an iter.Next fails.
C16_LogResult ==
    git.gpc = "done" =>
        IF LogFails
        THEN /\ git.ret.err # "nil"
             /\ git.ret.commits = <<>>
        ELSE /\ git.ret.err = "nil"
             /\ git.nexts = LogNexts
             /\ git.ret.commits =
                   IF StopIndex > 0 THEN SubSeq(Walk, 1, StopIndex) ELSE Walk

\* Log has returned two commits of a walk of three, stopping at the second
C16_Witness ==
    /\ git.gpc = "done"
    /\ git.ret.err = "nil"
    /\ Len(Walk) = 3
    /\ Len(git.ret.commits) = 2
    /\ git.ret.commits[2].Hash = git.stopAtHash

\* the text m holds the text sub
Holds(m, sub) ==
    \E p \in 0..(Len(m) - Len(sub)) : \A q \in 1..Len(sub) : m[p + q] = sub[q]

\* the place in the walk of the first commit whose message holds the marker, or 0
MarkerIndex == Least({k \in DOMAIN Walk : Holds(Walk[k].Message, git.marker)})

\* C19: FindRebaseMarkerCommit returns the first commit of the walk whose
\* message holds the marker, having asked the iterator for no commit after
\* it; when the walk ends without such a commit, or repository.Log or an
\* iter.Next fails before it, it returns an error and no commit.
C19_FindResult ==
    git.gpc = "done" =>
        IF \/ git.openErr
           \/ Walk = <<>>
           \/ MarkerIndex = 0
           \/ git.errAt \in 1..MarkerIndex
        THEN /\ git.ret.err # "nil"
             /\ git.ret.commit = NoCommit
        ELSE /\ git.ret.err = "nil"
             /\ git.ret.commit = Walk[MarkerIndex]
             /\ git.nexts = MarkerIndex

\* the marker was found in the middle of the message of the second commit
\* of the walk, and a later commit holds it too
C19_Witness ==
    /\ git.gpc = "done"
    /\ git.ret.err = "nil"
    /\ git.nexts = 2
    /\ ~HasPrefixAt(git.ret.commit.Message, 1, git.marker)
    /\ Len(Walk) = 3
    /\ Holds(Walk[3].Message, git.marker)

====
